---- MODULE Spec2Model ----
(***************************************************************************)
(* Model of keybrl/hksr-compass.                                           *)
(*                                                                         *)
(*   pkg/compass/compass.go : Ring, RingGroup, Compass and the operations  *)
(*                            Name, ShortName, String, Validate,           *)
(*                            IsRingGroupSupported, Standardize, String.   *)
(*   main.go                : main and notifyContext (signal watcher).     *)
(*                                                                         *)
(* Go strings are modelled as sequences of one-character strings, so that  *)
(* formatting is computed character by character.  A *Compass is either    *)
(* Nil or a record with the four fields of the struct.                     *)
(***************************************************************************)
EXTENDS Integers, Sequences, FiniteSets, TLC

VARIABLES
    compass,    \* the receiver *Compass the caller holds (Nil or a record)
    rg,         \* the RingGroup value the caller holds
    op,         \* the operation called last ("none" before any call)
    ret,        \* the value returned by the first call
    ret2,       \* the value returned by a call made on ret
    wpc,        \* position of the goroutine started by notifyContext
    mainpc,     \* position of main
    ch,         \* the buffered channel of signals (capacity ChanCap)
    ctxDone,    \* whether the context is cancelled
    delivered,  \* number of signals the OS delivered to the process
    exitBy      \* who ended the process ("none" while it runs)

compassVars == <<compass, rg, op, ret, ret2>>
signalVars == <<wpc, mainpc, ch, ctxDone, delivered, exitBy>>
vars == <<compass, rg, op, ret, ret2, wpc, mainpc, ch, ctxDone, delivered, exitBy>>

----------------------------------------------------------------------------
(* Bounds of the model.                                                    *)

\* ring locations and speeds are drawn from -MaxAbs..MaxAbs
MaxAbs == 7
\* RingGroups lists have at most MaxGroups elements
MaxGroups == 3
\* elements of RingGroups lists are drawn from 0..MaxGroupValue
MaxGroupValue == 7
\* at most MaxSignals signals are delivered to the process
MaxSignals == 6

----------------------------------------------------------------------------
(* Types of compass.go.                                                    *)

\* RingGroup is a uint8
MaxUint8 == 255
RingGroupValues == 0..MaxUint8

OuterRingGroup == 4
MiddleRingGroup == 2
InnerRingGroup == 1

RECURSIVE BitOr(_, _)
\* a | b on non-negative integers
BitOr(a, b) ==
    IF a = 0 THEN b
    ELSE IF b = 0 THEN a
    ELSE (IF a % 2 = 1 \/ b % 2 = 1 THEN 1 ELSE 0) + 2 * BitOr(a \div 2, b \div 2)

OuterMiddleRingGroup == BitOr(OuterRingGroup, MiddleRingGroup)
OuterInnerRingGroup == BitOr(OuterRingGroup, InnerRingGroup)
MiddleInnerRingGroup == BitOr(MiddleRingGroup, InnerRingGroup)

\* a nil *Compass
Nil == [nil |-> TRUE]

\* the outcome of a call that panics (a nil pointer dereference)
Panic == [panic |-> TRUE]

Ring(location, speed) == [Location |-> location, Speed |-> speed]

Compass(inner, middle, outer, rgs) ==
    [InnerRing |-> inner, MiddleRing |-> middle, OuterRing |-> outer, RingGroups |-> rgs]

----------------------------------------------------------------------------
(* RingGroup methods.                                                      *)

Name(g) ==
    IF g = OuterRingGroup THEN <<"O", "u", "t", "e", "r">>
    ELSE IF g = MiddleRingGroup THEN <<"M", "i", "d", "d", "l", "e">>
    ELSE IF g = InnerRingGroup THEN <<"I", "n", "n", "e", "r">>
    ELSE IF g = OuterMiddleRingGroup
        THEN <<"O", "u", "t", "e", "r", "M", "i", "d", "d", "l", "e">>
    ELSE IF g = OuterInnerRingGroup
        THEN <<"O", "u", "t", "e", "r", "I", "n", "n", "e", "r">>
    ELSE IF g = MiddleInnerRingGroup
        THEN <<"M", "i", "d", "d", "l", "e", "I", "n", "n", "e", "r">>
    ELSE <<>>

ShortNameAllRings(g) ==
    IF g = OuterRingGroup THEN <<"o">>
    ELSE IF g = MiddleRingGroup THEN <<"m">>
    ELSE IF g = InnerRingGroup THEN <<"i">>
    ELSE IF g = OuterMiddleRingGroup THEN <<"o", "m">>
    ELSE IF g = OuterInnerRingGroup THEN <<"o", "i">>
    ELSE IF g = MiddleInnerRingGroup THEN <<"m", "i">>
    ELSE IF g = BitOr(OuterMiddleRingGroup, InnerRingGroup) THEN <<"o", "m", "i">>
    ELSE <<>>

ShortName(g) ==
    IF g = OuterRingGroup THEN <<"o">>
    ELSE IF g = MiddleRingGroup THEN <<"m">>
    ELSE IF g = InnerRingGroup THEN <<"i">>
    ELSE IF g = OuterMiddleRingGroup THEN <<"o", "m">>
    ELSE IF g = OuterInnerRingGroup THEN <<"o", "i">>
    ELSE IF g = MiddleInnerRingGroup THEN <<"m", "i">>
    ELSE <<>>

RingGroupString(g) == Name(g)

----------------------------------------------------------------------------
(* Helpers of the Go runtime and library used by compass.go.               *)

\* Go's a % n for n > 0: the remainder of the division truncated toward zero
GoRem(a, n) == IF a >= 0 THEN a % n ELSE -((-a) % n)

RECURSIVE InsertSorted(_, _)
\* x inserted in the ascending sequence s, after the elements not greater
InsertSorted(s, x) ==
    IF s = <<>> THEN <<x>>
    ELSE IF x < s[Len(s)] THEN Append(InsertSorted(SubSeq(s, 1, Len(s) - 1), x), s[Len(s)])
    ELSE Append(s, x)

RECURSIVE SortSlice(_)
\* sort.Slice(rgs, func(i, j) bool { return rgs[i] < rgs[j] })
SortSlice(s) ==
    IF s = <<>> THEN <<>>
    ELSE InsertSorted(SortSlice(SubSeq(s, 1, Len(s) - 1)), s[Len(s)])

RECURSIVE DeduplicateFrom(_, _, _)
\* the loop over rgs from index i on, with deduplicatedRGs = acc
DeduplicateFrom(rgs, i, acc) ==
    IF i > Len(rgs) THEN acc
    ELSE IF Len(acc) > 0 /\ acc[Len(acc)] = rgs[i] THEN DeduplicateFrom(rgs, i + 1, acc)
    ELSE DeduplicateFrom(rgs, i + 1, Append(acc, rgs[i]))

DeduplicateKeepAll(rgs) == rgs

Deduplicate(rgs) == DeduplicateFrom(rgs, 1, <<>>)

DigitChar(d) == <<"0", "1", "2", "3", "4", "5", "6", "7", "8", "9">>[d + 1]

RECURSIVE FormatUnsigned(_)
\* the decimal digits of n >= 0
FormatUnsigned(n) ==
    IF n < 10 THEN <<DigitChar(n)>>
    ELSE Append(FormatUnsigned(n \div 10), DigitChar(n % 10))

\* fmt verb %d
FormatD(n) == IF n < 0 THEN <<"-">> \o FormatUnsigned(-n) ELSE FormatUnsigned(n)

FormatPlusDNoSign(n) == FormatD(n)

\* fmt verb %+d
FormatPlusD(n) == IF n < 0 THEN <<"-">> \o FormatUnsigned(-n) ELSE <<"+">> \o FormatUnsigned(n)

RECURSIVE JoinSkipEmpty(_, _)
JoinSkipEmpty(elems, sep) ==
    IF elems = <<>> THEN <<>>
    ELSE IF Len(elems) = 1 THEN elems[1]
    ELSE IF elems[Len(elems)] = <<>> THEN JoinSkipEmpty(SubSeq(elems, 1, Len(elems) - 1), sep)
    ELSE JoinSkipEmpty(SubSeq(elems, 1, Len(elems) - 1), sep) \o sep \o elems[Len(elems)]

RECURSIVE Join(_, _)
\* strings.Join(elems, sep)
Join(elems, sep) ==
    IF elems = <<>> THEN <<>>
    ELSE IF Len(elems) = 1 THEN elems[1]
    ELSE Join(SubSeq(elems, 1, Len(elems) - 1), sep) \o sep \o elems[Len(elems)]

----------------------------------------------------------------------------
(* Compass methods.                                                        *)

Validate(c) == "nil"

IsRingGroupSupported(c, g) ==
    IF c = Nil THEN FALSE
    ELSE \E i \in 1..Len(c.RingGroups) : c.RingGroups[i] = g

StandardizeLocationNoInnerRem(location) == GoRem(location + 6, 6)

\* (Location%6 + 6) % 6
StandardizeLocation(location) == GoRem(GoRem(location, 6) + 6, 6)

StandardizeSpeedFloor(speed) == GoRem(GoRem(speed, 6) + 6, 6)

\* Speed % 6
StandardizeSpeed(speed) == GoRem(speed, 6)

StandardizeRing(ring) ==
    Ring(StandardizeLocation(ring.Location), StandardizeSpeed(ring.Speed))

\* the sorted, deduplicated copy of compass.RingGroups
StandardizeRingGroups(rgs) == Deduplicate(SortSlice(rgs))

\* Standardize on a receiver that is not nil
StandardizeNonNil(c) ==
    Compass(StandardizeRing(c.InnerRing),
            StandardizeRing(c.MiddleRing),
            StandardizeRing(c.OuterRing),
            StandardizeRingGroups(c.RingGroups))

StandardizeNoNilCheck(c) == IF c = Nil THEN Panic ELSE StandardizeNonNil(c)

Standardize(c) == IF c = Nil THEN Nil ELSE StandardizeNonNil(c)

StandardizeReceiverSortedInPlace(c) ==
    IF c = Nil THEN Nil ELSE [c EXCEPT !.RingGroups = SortSlice(@)]

\* the receiver after Standardize: the sort acts on the copy rgs, and
\* nothing is assigned through the receiver
StandardizeReceiver(c) == c

CompassString(c) ==
    IF c = Nil THEN <<>>
    ELSE LET std == Standardize(c)
             rgStrs == [i \in 1..Len(std.RingGroups) |-> ShortName(std.RingGroups[i])]
             rgsStr == Join(rgStrs, <<",">>)
         IN  FormatD(std.OuterRing.Location) \o FormatPlusD(std.OuterRing.Speed) \o <<",">>
             \o FormatD(std.MiddleRing.Location) \o FormatPlusD(std.MiddleRing.Speed) \o <<",">>
             \o FormatD(std.InnerRing.Location) \o FormatPlusD(std.InnerRing.Speed) \o <<"/">>
             \o rgsStr

\* the receiver after String: String only calls Standardize on it
CompassStringReceiver(c) == StandardizeReceiver(c)

----------------------------------------------------------------------------
(* The calls a user of the package makes.                                  *)

IntInputs == (0 - MaxAbs)..MaxAbs
GroupInputs == 0..MaxGroupValue
RingGroupsInputs == UNION {[1..n -> GroupInputs] : n \in 0..MaxGroups}

\* the compass of the serialization example
ExampleCompass ==
    Compass(Ring(5, 0), Ring(3, 2), Ring(0, -1), <<OuterMiddleRingGroup>>)

\* every ring sees every pair of a location and a speed
RingsInputs ==
    {Compass(Ring(a, b), Ring(b, c), Ring(c, a), <<OuterMiddleRingGroup>>) :
        a \in IntInputs, b \in IntInputs, c \in IntInputs}

GroupsInputs ==
    {Compass(Ring(-1, -7), Ring(3, 2), Ring(7, 6), rgs) : rgs \in RingGroupsInputs}

SignalIdle ==
    /\ wpc = "idle"
    /\ mainpc = "idle"
    /\ ch = <<>>
    /\ ctxDone = FALSE
    /\ delivered = 0
    /\ exitBy = "none"

Init ==
    /\ \/ compass \in RingsInputs /\ rg = OuterMiddleRingGroup
       \/ compass \in GroupsInputs /\ rg \in GroupInputs
       \/ compass \in {Nil, ExampleCompass} /\ rg \in RingGroupValues
    /\ op = "none"
    /\ ret = "none"
    /\ ret2 = "none"
    /\ SignalIdle

CallValidate ==
    /\ op = "none"
    /\ op' = "Validate"
    /\ ret' = Validate(compass)
    /\ UNCHANGED <<compass, rg, ret2>>
    /\ UNCHANGED signalVars

CallIsRingGroupSupported ==
    /\ op = "none"
    /\ op' = "IsRingGroupSupported"
    /\ ret' = IsRingGroupSupported(compass, rg)
    /\ UNCHANGED <<compass, rg, ret2>>
    /\ UNCHANGED signalVars

CallStandardize ==
    /\ op = "none"
    /\ op' = "Standardize"
    /\ ret' = Standardize(compass)
    /\ compass' = StandardizeReceiver(compass)
    /\ UNCHANGED <<rg, ret2>>
    /\ UNCHANGED signalVars

\* Standardize called on the result of Standardize
CallStandardizeAgain ==
    /\ op = "Standardize"
    /\ ret # Panic
    /\ op' = "StandardizeAgain"
    /\ ret2' = Standardize(ret)
    /\ ret' = StandardizeReceiver(ret)
    /\ UNCHANGED <<compass, rg>>
    /\ UNCHANGED signalVars

CallString ==
    /\ op = "none"
    /\ op' = "String"
    /\ ret' = CompassString(compass)
    /\ compass' = CompassStringReceiver(compass)
    /\ UNCHANGED <<rg, ret2>>
    /\ UNCHANGED signalVars

\* String called on the result of Standardize
CallStringOfStandardized ==
    /\ op = "Standardize"
    /\ ret # Panic
    /\ op' = "StringOfStandardized"
    /\ ret2' = CompassString(ret)
    /\ ret' = CompassStringReceiver(ret)
    /\ UNCHANGED <<compass, rg>>
    /\ UNCHANGED signalVars

CallName ==
    /\ op = "none"
    /\ op' = "Name"
    /\ ret' = Name(rg)
    /\ UNCHANGED <<compass, rg, ret2>>
    /\ UNCHANGED signalVars

CallShortName ==
    /\ op = "none"
    /\ op' = "ShortName"
    /\ ret' = ShortName(rg)
    /\ UNCHANGED <<compass, rg, ret2>>
    /\ UNCHANGED signalVars

CallRingGroupString ==
    /\ op = "none"
    /\ op' = "RingGroupString"
    /\ ret' = RingGroupString(rg)
    /\ UNCHANGED <<compass, rg, ret2>>
    /\ UNCHANGED signalVars

Next ==
    \/ CallValidate
    \/ CallIsRingGroupSupported
    \/ CallStandardize
    \/ CallStandardizeAgain
    \/ CallString
    \/ CallStringOfStandardized
    \/ CallName
    \/ CallShortName
    \/ CallRingGroupString

Spec == Init /\ [][Next]_vars

----------------------------------------------------------------------------
(* main.go: main and the goroutine of notifyContext.                       *)

\* capacity of the channel made by notifyContext
ChanCap == 5
Signals == {"SIGINT", "SIGTERM"}

\* the state when notifyContext has returned to main: the context is not
\* cancelled, the channel is registered and empty, the goroutine is started
SignalInit ==
    /\ compass = Nil
    /\ rg = 0
    /\ op = "none"
    /\ ret = "none"
    /\ ret2 = "none"
    /\ wpc = "select1"
    /\ mainpc = "execute"
    /\ ch = <<>>
    /\ ctxDone = FALSE
    /\ delivered = 0
    /\ exitBy = "none"

\* the OS delivers a signal; signal.Notify sends it to ch without blocking
\* and drops it when ch is full
DeliverSignal ==
    /\ exitBy = "none"
    /\ delivered < MaxSignals
    /\ \E s \in Signals :
        ch' = IF Len(ch) < ChanCap THEN Append(ch, s) ELSE ch
    /\ delivered' = delivered + 1
    /\ UNCHANGED <<wpc, mainpc, ctxDone, exitBy>>
    /\ UNCHANGED compassVars

\* first select, case <-ctx.Done()
WatcherFirstDone ==
    /\ exitBy = "none"
    /\ wpc = "select1"
    /\ ctxDone
    /\ wpc' = "select2"
    /\ UNCHANGED <<mainpc, ch, ctxDone, delivered, exitBy>>
    /\ UNCHANGED compassVars

\* first select, case <-ch: the signal is received
WatcherFirstSignal ==
    /\ exitBy = "none"
    /\ wpc = "select1"
    /\ ch # <<>>
    /\ ch' = Tail(ch)
    /\ wpc' = "cancel"
    /\ UNCHANGED <<mainpc, ctxDone, delivered, exitBy>>
    /\ UNCHANGED compassVars

\* cancel() after the receive of the first select
WatcherCancel ==
    /\ exitBy = "none"
    /\ wpc = "cancel"
    /\ ctxDone' = TRUE
    /\ wpc' = "select2"
    /\ UNCHANGED <<mainpc, ch, delivered, exitBy>>
    /\ UNCHANGED compassVars

\* second select, case <-ctx.Done(): the goroutine returns
WatcherSecondDone ==
    /\ exitBy = "none"
    /\ wpc = "select2"
    /\ ctxDone
    /\ wpc' = "returned"
    /\ UNCHANGED <<mainpc, ch, ctxDone, delivered, exitBy>>
    /\ UNCHANGED compassVars

\* second select, case <-ch: the signal is received
WatcherSecondSignal ==
    /\ exitBy = "none"
    /\ wpc = "select2"
    /\ ch # <<>>
    /\ ch' = Tail(ch)
    /\ wpc' = "exit"
    /\ UNCHANGED <<mainpc, ctxDone, delivered, exitBy>>
    /\ UNCHANGED compassVars

\* os.Exit(1) after the receive of the second select
WatcherExit ==
    /\ exitBy = "none"
    /\ wpc = "exit"
    /\ wpc' = "exited"
    /\ exitBy' = "watcher"
    /\ UNCHANGED <<mainpc, ch, ctxDone, delivered>>
    /\ UNCHANGED compassVars

\* commands.Cmd.ExecuteContext(ctx) returns nil: main reaches its end
MainExecuteReturnsNil ==
    /\ exitBy = "none"
    /\ mainpc = "execute"
    /\ mainpc' = "deferred"
    /\ UNCHANGED <<wpc, ch, ctxDone, delivered, exitBy>>
    /\ UNCHANGED compassVars

\* commands.Cmd.ExecuteContext(ctx) returns an error: log.Fatal(err)
MainExecuteFails ==
    /\ exitBy = "none"
    /\ mainpc = "execute"
    /\ mainpc' = "exited"
    /\ exitBy' = "log.Fatal"
    /\ UNCHANGED <<wpc, ch, ctxDone, delivered>>
    /\ UNCHANGED compassVars

\* defer cancel()
MainDeferredCancel ==
    /\ exitBy = "none"
    /\ mainpc = "deferred"
    /\ ctxDone' = TRUE
    /\ mainpc' = "return"
    /\ UNCHANGED <<wpc, ch, delivered, exitBy>>
    /\ UNCHANGED compassVars

\* main returns: the process exits with status 0
MainReturn ==
    /\ exitBy = "none"
    /\ mainpc = "return"
    /\ mainpc' = "exited"
    /\ exitBy' = "main"
    /\ UNCHANGED <<wpc, ch, ctxDone, delivered>>
    /\ UNCHANGED compassVars

SignalNext ==
    \/ DeliverSignal
    \/ WatcherFirstDone
    \/ WatcherFirstSignal
    \/ WatcherCancel
    \/ WatcherSecondDone
    \/ WatcherSecondSignal
    \/ WatcherExit
    \/ MainExecuteReturnsNil
    \/ MainExecuteFails
    \/ MainDeferredCancel
    \/ MainReturn

SignalSpec == SignalInit /\ [][SignalNext]_vars

----------------------------------------------------------------------------
(* Properties of the compass operations, checked under Spec.               *)

RingNames == {"InnerRing", "MiddleRing", "OuterRing"}

\* a is congruent to b modulo 6
Congruent6(a, b) == (a - b) % 6 = 0

StrictlyAscending(s) == \A i \in 1..(Len(s) - 1) : s[i] < s[i + 1]

Elements(s) == {s[i] : i \in 1..Len(s)}

RECURSIVE AscendingOf(_)
\* the elements of the finite set S of integers, in ascending order
AscendingOf(S) ==
    IF S = {} THEN <<>>
    ELSE LET m == CHOOSE x \in S : \A y \in S : x <= y
         IN  <<m>> \o AscendingOf(S \ {m})

\* C1: Standardize is idempotent: standardizing the result of Standardize
\* gives a compass equal to it in every ring field and in RingGroups.
C1_StandardizeIdempotent ==
    op = "StandardizeAgain" =>
        /\ ret = Standardize(compass)
        /\ ret2 = ret
        /\ compass # Nil =>
            /\ \A r \in RingNames :
                /\ ret2[r].Location = ret[r].Location
                /\ ret2[r].Speed = ret[r].Speed
            /\ Len(ret2.RingGroups) = Len(ret.RingGroups)
            /\ \A i \in 1..Len(ret.RingGroups) : ret2.RingGroups[i] = ret.RingGroups[i]

C1_Witness ==
    /\ op = "StandardizeAgain"
    /\ compass # Nil
    /\ compass.RingGroups = <<InnerRingGroup, OuterRingGroup, InnerRingGroup>>
    /\ compass.InnerRing = Ring(-1, -7)
    /\ ret # compass

\* C2: the standardized Location of every ring is in 0..5 and congruent
\* modulo 6 to the input Location (-1 gives 5, 7 gives 1, -6 gives 0).
C2_LocationReduced ==
    (op = "Standardize" /\ compass # Nil) =>
        \A r \in RingNames :
            /\ ret[r].Location \in 0..5
            /\ Congruent6(ret[r].Location, compass[r].Location)
            /\ compass[r].Location = -1 => ret[r].Location = 5
            /\ compass[r].Location = 7 => ret[r].Location = 1
            /\ compass[r].Location = -6 => ret[r].Location = 0

C2_Witness ==
    /\ op = "Standardize"
    /\ compass # Nil
    /\ compass.OuterRing.Location = -1 /\ ret.OuterRing.Location = 5
    /\ compass.MiddleRing.Location = 7 /\ ret.MiddleRing.Location = 1
    /\ compass.InnerRing.Location = -6 /\ ret.InnerRing.Location = 0

\* C3: the standardized Speed of every ring is the remainder of the input
\* Speed by 6 truncated toward zero: in -5..5, congruent to the input
\* modulo 6, never of the opposite sign (-1 gives -1, 7 gives 1, -7 gives -1).
C3_SpeedTruncated ==
    (op = "Standardize" /\ compass # Nil) =>
        \A r \in RingNames :
            /\ ret[r].Speed \in -5..5
            /\ Congruent6(ret[r].Speed, compass[r].Speed)
            /\ compass[r].Speed < 0 => ret[r].Speed <= 0
            /\ compass[r].Speed >= 0 => ret[r].Speed >= 0
            /\ compass[r].Speed = -1 => ret[r].Speed = -1
            /\ compass[r].Speed = 7 => ret[r].Speed = 1
            /\ compass[r].Speed = -7 => ret[r].Speed = -1

C3_Witness ==
    /\ op = "Standardize"
    /\ compass # Nil
    /\ compass.OuterRing.Speed = -1 /\ ret.OuterRing.Speed = -1
    /\ compass.MiddleRing.Speed = 7 /\ ret.MiddleRing.Speed = 1
    /\ compass.InnerRing.Speed = -7 /\ ret.InnerRing.Speed = -1

\* C4: the RingGroups of the standardized compass is strictly ascending and
\* holds exactly the values of the input RingGroups, so IsRingGroupSupported
\* answers the same on both for every RingGroup
\* ([Inner, Outer, Inner] becomes [Inner, Outer]).
C4_GroupsSortedDeduplicated ==
    (op = "Standardize" /\ compass # Nil) =>
        /\ StrictlyAscending(ret.RingGroups)
        /\ Elements(ret.RingGroups) = Elements(compass.RingGroups)
        /\ \A g \in RingGroupValues :
            IsRingGroupSupported(ret, g) = IsRingGroupSupported(compass, g)
        /\ compass.RingGroups = <<InnerRingGroup, OuterRingGroup, InnerRingGroup>>
            => ret.RingGroups = <<InnerRingGroup, OuterRingGroup>>

C4_Witness ==
    /\ op = "Standardize"
    /\ compass # Nil
    /\ compass.RingGroups = <<InnerRingGroup, OuterRingGroup, InnerRingGroup>>
    /\ ret.RingGroups = <<InnerRingGroup, OuterRingGroup>>

\* the sign and the single digit of a speed in -5..5
SignedDigit(speed) ==
    IF speed >= 0 THEN <<"+", DigitChar(speed)>> ELSE <<"-", DigitChar(0 - speed)>>

\* the location digit followed by the signed speed of a standardized ring
RingField(ring) == <<DigitChar(ring.Location)>> \o SignedDigit(ring.Speed)

RECURSIVE CommaCodes(_)
\* the short names of the groups, a comma before each but the first
CommaCodes(rgs) ==
    IF rgs = <<>> THEN <<>>
    ELSE IF Len(rgs) = 1 THEN ShortName(rgs[1])
    ELSE CommaCodes(SubSeq(rgs, 1, Len(rgs) - 1)) \o <<",">> \o ShortName(rgs[Len(rgs)])

\* "<oL><oS>,<mL><mS>,<iL><iS>/<codes>" of a standardized compass
CanonicalText(std) ==
    RingField(std.OuterRing) \o <<",">> \o RingField(std.MiddleRing) \o <<",">>
    \o RingField(std.InnerRing) \o <<"/">> \o CommaCodes(std.RingGroups)

\* C5: String() of a compass is the text built from its standardized form:
\* rings in the order Outer, Middle, Inner, each a location digit 0..5 and a
\* speed with a mandatory sign, then '/' and the comma-joined short names in
\* ascending order; String(c) = String(Standardize(c)); the example compass
\* gives "0-1,3+2,5+0/om".
C5_StringExact ==
    /\ (op = "String" /\ compass # Nil) =>
        /\ ret = CanonicalText(Standardize(compass))
        /\ compass = ExampleCompass =>
            ret = <<"0", "-", "1", ",", "3", "+", "2", ",", "5", "+", "0", "/", "o", "m">>
    /\ op = "StringOfStandardized" => ret2 = CompassString(compass)

C5_Witness ==
    /\ op = "String"
    /\ compass = ExampleCompass
    /\ ret = <<"0", "-", "1", ",", "3", "+", "2", ",", "5", "+", "0", "/", "o", "m">>

\* C6: Standardize and String never modify their receiver: no call changes
\* the rings or the contents and order of RingGroups of the compass it is
\* called on.
C6_ReceiverUnmodified ==
    [][/\ compass' = compass
       /\ op' \in {"StandardizeAgain", "StringOfStandardized"} => ret' = ret]_vars

C6_Witness ==
    /\ op = "String"
    /\ compass # Nil
    /\ compass.RingGroups = <<InnerRingGroup, OuterRingGroup, InnerRingGroup>>
    /\ compass.OuterRing = Ring(7, 6)

\* C7: on a nil Compass IsRingGroupSupported returns false, Standardize
\* returns nil and String returns the empty string; none of them panics.
C7_NilSafe ==
    compass = Nil =>
        /\ op = "IsRingGroupSupported" => ret = FALSE
        /\ op = "Standardize" => ret = Nil
        /\ op = "String" => ret = <<>>
        /\ op = "StandardizeAgain" => ret2 = Nil
        /\ op = "StringOfStandardized" => ret2 = <<>>

C7_Witness ==
    /\ compass = Nil
    /\ op = "Standardize"
    /\ ret = Nil

\* C8: Name() and ShortName() return the long name and the short code for
\* the six defined bitmasks (4 Outer/o, 2 Middle/m, 1 Inner/i, 6 OuterMiddle/om,
\* 5 OuterInner/oi, 3 MiddleInner/mi) and "" for every other uint8 value;
\* String() of a RingGroup equals Name().
C8_NamesTotal ==
    /\ op = "Name" =>
        /\ rg = 4 => ret = <<"O", "u", "t", "e", "r">>
        /\ rg = 2 => ret = <<"M", "i", "d", "d", "l", "e">>
        /\ rg = 1 => ret = <<"I", "n", "n", "e", "r">>
        /\ rg = 6 => ret = <<"O", "u", "t", "e", "r", "M", "i", "d", "d", "l", "e">>
        /\ rg = 5 => ret = <<"O", "u", "t", "e", "r", "I", "n", "n", "e", "r">>
        /\ rg = 3 => ret = <<"M", "i", "d", "d", "l", "e", "I", "n", "n", "e", "r">>
        /\ rg \notin 1..6 <=> ret = <<>>
    /\ op = "ShortName" =>
        /\ rg = 4 => ret = <<"o">>
        /\ rg = 2 => ret = <<"m">>
        /\ rg = 1 => ret = <<"i">>
        /\ rg = 6 => ret = <<"o", "m">>
        /\ rg = 5 => ret = <<"o", "i">>
        /\ rg = 3 => ret = <<"m", "i">>
        /\ rg \notin 1..6 <=> ret = <<>>
    /\ op = "RingGroupString" => ret = Name(rg)

C8_Witness ==
    /\ op = "ShortName"
    /\ rg = 7
    /\ ret = <<>>

\* the index of the first '/' of the text s (0 when there is none)
SlashIndex(s) ==
    IF \E i \in 1..Len(s) : s[i] = "/"
    THEN CHOOSE i \in 1..Len(s) : s[i] = "/" /\ \A j \in 1..(i - 1) : s[j] # "/"
    ELSE 0

AfterSlash(s) == SubSeq(s, SlashIndex(s) + 1, Len(s))

CommaCount(s) == Cardinality({i \in 1..Len(s) : s[i] = ","})

\* C9: after '/', String() has one comma-separated field per distinct value
\* of RingGroups, in ascending order; a group with no short name gives an
\* empty field whose commas are still there: n >= 1 distinct groups give
\* n-1 commas, and [0b000, 0b100, 0b111] gives "/,o,".
C9_EmptyFieldsKept ==
    (op = "String" /\ compass # Nil) =>
        LET distinct == AscendingOf(Elements(compass.RingGroups))
            n == Len(distinct)
        IN  /\ SlashIndex(ret) > 0
            /\ AfterSlash(ret) = CommaCodes(distinct)
            /\ n >= 1 => CommaCount(AfterSlash(ret)) = n - 1
            /\ n = 0 => AfterSlash(ret) = <<>>
            /\ compass.RingGroups = <<0, 4, 7>> => AfterSlash(ret) = <<",", "o", ",">>

C9_Witness ==
    /\ op = "String"
    /\ compass # Nil
    /\ compass.RingGroups = <<0, 4, 7>>
    /\ AfterSlash(ret) = <<",", "o", ",">>

----------------------------------------------------------------------------
(* Property of the signal watcher, checked under SignalSpec.               *)

\* C10: the first signal delivered cancels the context, and a second signal
\* makes the goroutine of notifyContext call os.Exit(1): once the goroutine
\* has reached its second select the context is cancelled, and when two
\* signals have been delivered to a process whose main is still executing
\* the command, a goroutine that has finished has finished with os.Exit(1).
C10_SecondSignalExits ==
    /\ wpc \in {"select2", "exit", "returned", "exited"} => ctxDone
    /\ (delivered >= 2 /\ mainpc = "execute" /\ wpc \in {"returned", "exited"})
        => exitBy = "watcher"

====
